---- MODULE Spec2Model ----
(***************************************************************************)
(* PyOne (pyone.py): the macro expansion make_script, which rewrites a     *)
(* one-line script delimited by ";", "{" and "}" into indented lines.      *)
(*                                                                         *)
(* Text is modelled as a sequence of one-character strings.  Python        *)
(* offsets are 0-based: the character at offset k of s is s[k+1].          *)
(* Every variable of make_script is a function of the invocation (pass)    *)
(* that owns it, so that several invocations can be run side by side.      *)
(***************************************************************************)
EXTENDS Integers, Sequences, FiniteSets, TLC

VARIABLES
    s,       \* s[p]      : the argument of invocation p
    i,       \* i[p]      : scan position
    b,       \* b[p]      : start of the current span
    indent,  \* indent[p] : current indentation
    lines,   \* lines[p]  : lines emitted so far
    pc,      \* pc[p]     : "loop" (at the while test), "done" (returned
             \*             lines), "error" (SyntaxError raised)
    raised,  \* raised[p] : text of the SyntaxError raised, <<>> if none
    DELIM    \* the module global DELIM

vars == <<s, i, b, indent, lines, pc, raised, DELIM>>

(***************************************************************************)
(* Bounds of the model.                                                    *)
(***************************************************************************)
MaxLen == 4      \* inputs of Spec: every text of at most MaxLen characters
ConcLen == 1     \* inputs of SpecConc: every text of at most ConcLen chars
NumPasses == 2   \* interleaved invocations in SpecConc
FairLen == 3     \* inputs of SpecFair: every text of at most FairLen chars

(***************************************************************************)
(* Characters.                                                             *)
(***************************************************************************)
DQ == "\""
SQ == "'"
BS == "\\"
NL == "\n"

\* Characters the bounded inputs are built from: a plain letter, a blank,
\* the three delimiters, the two quotes, the backslash and the macro letters.
Alphabet == {"A", " ", ";", "{", "}", DQ, SQ, BS, "E", "L"}

\* str.strip() removes these.
Whitespace == {" ", "\t", "\n", "\r", "\f"}

INDENT_UNIT ==
    <<" ", " ", " ", " ">>

DELIM_DEFAULT ==
    <<" ">>

FOR_LINE ==
    <<"f", "o", "r", " ", "(", "L", ",", "S", ")", " ", "i", "n", " ", "e",
      "n", "u", "m", "e", "r", "a", "t", "e", "(", "f", "i", "l", "e", "i",
      "n", "p", "u", "t", ".", "i", "n", "p", "u", "t", "(", ")", ")", ":">>

S_LINE ==
    <<"s", " ", "=", " ", "S", ".", "s", "t", "r", "i", "p", "(", ")">>

F_LINE ==
    <<"F", " ", "=", " ", "s", ".", "s", "p", "l", "i", "t", "(", "D", "E",
      "L", "I", "M", ")">>

I_LINE ==
    <<"I", " ", "=", " ", "[", " ", "t", "o", "i", "n", "t", "(", "v", ")",
      " ", "f", "o", "r", " ", "v", " ", "i", "n", " ", "F", " ", "]">>

EL_OPEN ==
    <<"E", "L", "{">>

ERR_PREFIX ==
    <<"I", "n", "v", "a", "l", "i", "d", " ", "S", "y", "n", "t", "a", "x",
      ":", " ">>

(***************************************************************************)
(* Named inputs: the examples of the documentation.                        *)
(***************************************************************************)
ExQuote ==
    <<"p", "r", "i", "n", "t", "(", "\"", "a", ";", "b", "{", "c", "}",
      "d", "\"", ")">>

ExTailQuote ==
    <<"x", "=", "\"", "a", "\"">>

ExTailQuote2 ==
    <<"A", ";", "p", "r", "i", "n", "t", " ", "\"", "b", "\"">>

ExBlock ==
    <<"A", " ", "{", " ", "B", ";", " ", "C", " ", "}">>

ExEmpty ==
    <<"A", ";", ";", "B">>

ExLoop ==
    <<"P", "{", "E", "L", "{", "Q", "}", "}">>

ExNested ==
    <<"A", "{", "B", "{", "C", "}", "D", "}">>

ExClose ==
    <<"A", "}">>

ExOpenClose ==
    <<"A", "{", "B", "}">>

ExLabel ==
    <<"L", "A", "B", "E", "L", "{">>

ExDoc ==
    <<"A", ";", " ", "B", ";", " ", "C">>

ExEscaped ==
    <<"\"", "a", "\\", "\"", ";", "b">>

ExEscapedBlock ==
    <<"\"", "\\", "\"", "{", "A">>

ExEscapedLoop ==
    <<"\"", "\\", "\"", "E", "L", "{">>

ExLower ==
    <<"e", "l", "{">>

ExSpaced ==
    <<"E", "L", " ", "{">>

ExQuotedEL ==
    <<"\"", "E", "L", "\"", "{">>

ExInnerEL ==
    <<"\"", "E", "L", "{", "\"">>

TextLAB ==
    <<"L", "A", "B">>

TextA ==
    <<"A">>

TextB ==
    <<"B">>

TextC ==
    <<"C">>

TextD ==
    <<"D">>

TextP ==
    <<"P">>

TextQ ==
    <<"Q">>

MARKER ==
    <<":">>

Examples ==
    {ExQuote, ExTailQuote, ExTailQuote2, ExBlock, ExEmpty, ExLoop, ExNested,
     ExClose, ExOpenClose, ExLabel, ExDoc, ExEscaped, ExLower, ExSpaced,
     ExQuotedEL, ExInnerEL, ExEscapedBlock, ExEscapedLoop}

\* Every text of at most n characters over Alphabet.
Texts(n) == UNION {[1..k -> Alphabet] : k \in 0..n}

Inputs == Texts(MaxLen) \cup Examples

FairInputs == Texts(FairLen) \cup Examples

\* The interleaved passes run on fewer texts: what is shared between passes
\* does not depend on the characters.
ConcAlphabet == {"A", "{", "}"}

ConcTexts(n) == UNION {[1..k -> ConcAlphabet] : k \in 0..n}

ConcInputs == ConcTexts(ConcLen) \cup {ExLoop, ExNested, ExTailQuote2}

(***************************************************************************)
(* Python string primitives.                                               *)
(***************************************************************************)
Min(x, y) == IF x < y THEN x ELSE y
Max(x, y) == IF x > y THEN x ELSE y

\* A slice bound as Python normalises it: a negative bound counts from the
\* end, and the result is clamped to 0..len.
PyBound(n, k) == IF k < 0 THEN Max(n + k, 0) ELSE Min(k, n)

\* t[lo:hi]
PySlice(t, lo, hi) ==
    LET l == PyBound(Len(t), lo)
        h == PyBound(Len(t), hi)
    IN  IF l >= h THEN << >> ELSE SubSeq(t, l + 1, h)

\* t[lo:]
PyFrom(t, lo) == PySlice(t, lo, Len(t))

\* t[k], k >= 0
PyAt(t, k) == t[k + 1]

RECURSIVE LStrip(_)
LStrip(t) ==
    IF t # << >> /\ Head(t) \in Whitespace THEN LStrip(Tail(t)) ELSE t

RECURSIVE RStrip(_)
RStrip(t) ==
    IF t # << >> /\ t[Len(t)] \in Whitespace
    THEN RStrip(SubSeq(t, 1, Len(t) - 1))
    ELSE t

\* t.strip()
Strip(t) == RStrip(LStrip(t))

\* u * n
RECURSIVE Repeat(_, _)
Repeat(u, n) == IF n <= 0 THEN << >> ELSE u \o Repeat(u, n - 1)

(***************************************************************************)
(* PAT: [^"'{};]* ( [{};] | "(\\.|[^"])*" | '(\\.|[^'])*' )                *)
(* matched by a backtracking engine: alternatives are tried in order, a    *)
(* star takes one more iteration before it tries to stop, and the first    *)
(* complete parse wins.                                                    *)
(***************************************************************************)
NoMatch == -1

Special == {DQ, SQ, "{", "}", ";"}

\* PlainRun for the class [^{};]: the quotes forgotten.
RECURSIVE PlainRunThroughQuotes(_, _)
PlainRunThroughQuotes(t, k) ==
    IF k < Len(t) /\ PyAt(t, k) \notin {"{", "}", ";"}
    THEN PlainRunThroughQuotes(t, k + 1)
    ELSE k

\* End of the longest run of [^"'{};] starting at offset k.
RECURSIVE PlainRun(_, _)
PlainRun(t, k) ==
    IF k < Len(t) /\ PyAt(t, k) \notin Special
    THEN PlainRun(t, k + 1)
    ELSE k

\* (\\.|[^q])* q from offset k, the opening quote q already consumed:
\* the end of the match, or NoMatch.
RECURSIVE QuotedBody(_, _, _)
QuotedBody(t, k, q) ==
    IF k >= Len(t) THEN NoMatch
    ELSE LET c    == PyAt(t, k)
             \* \\.  : a backslash and any character but a newline
             esc  == IF c = BS /\ k + 1 < Len(t) /\ PyAt(t, k + 1) # NL
                     THEN QuotedBody(t, k + 2, q)
                     ELSE NoMatch
             \* [^q] : any one character but the quote
             one  == IF c # q THEN QuotedBody(t, k + 1, q) ELSE NoMatch
         IN  IF esc # NoMatch THEN esc
             ELSE IF one # NoMatch THEN one
             ELSE IF c = q THEN k + 1
             ELSE NoMatch

\* PAT.match(t, k).end(0), or NoMatch when PAT.match(t, k) is None.  A
\* shorter plain run never helps: the character after it would be plain.
PAT(t, k) ==
    LET j == PlainRun(t, k)
    IN  IF j >= Len(t) THEN NoMatch
        ELSE IF PyAt(t, j) \in {"{", "}", ";"} THEN j + 1
        ELSE QuotedBody(t, j + 1, PyAt(t, j))

(***************************************************************************)
(* make_script                                                             *)
(***************************************************************************)
\* add without its test "if line".
addUnguarded(ls, ind, line) ==
    Append(ls, Repeat(INDENT_UNIT, ind) \o Strip(line))

\* add(line), as the value of lines after the call.
add(ls, ind, line) ==
    LET stripped == Strip(line)
    IN  IF stripped # << >>
        THEN Append(ls, Repeat(INDENT_UNIT, ind) \o stripped)
        ELSE ls

\* The state after construction of the invocations in P on the texts in T.
InitOn(P, T) ==
    /\ s \in [P -> T]
    /\ i = [p \in P |-> 0]
    /\ b = [p \in P |-> 0]
    /\ indent = [p \in P |-> 0]
    /\ lines = [p \in P |-> << >>]
    /\ pc = [p \in P |-> "loop"]
    /\ raised = [p \in P |-> << >>]
    /\ DELIM = DELIM_DEFAULT

Init == InitOn({1}, Inputs)

InitConc == InitOn(1..NumPasses, ConcInputs)

InitFair == InitOn({1}, FairInputs)

Passes == DOMAIN pc

\* while i < len(s): false, return lines
Return(p) ==
    /\ pc[p] = "loop"
    /\ ~(i[p] < Len(s[p]))
    /\ pc' = [pc EXCEPT ![p] = "done"]
    /\ UNCHANGED <<s, i, b, indent, lines, raised, DELIM>>

\* if not m: add(s[b:]); break   (and the return that follows)
Unmatched(p) ==
    /\ pc[p] = "loop"
    /\ i[p] < Len(s[p])
    /\ PAT(s[p], i[p]) = NoMatch
    /\ lines' = [lines EXCEPT ![p] = add(@, indent[p], PyFrom(s[p], b[p]))]
    /\ pc' = [pc EXCEPT ![p] = "done"]
    /\ UNCHANGED <<s, i, b, indent, raised, DELIM>>

\* LoopOpen with the indentation raised before the header is added.
LoopOpenDeep(p) ==
    /\ pc[p] = "loop"
    /\ i[p] < Len(s[p])
    /\ PAT(s[p], i[p]) # NoMatch
    /\ LET e  == PAT(s[p], i[p])
           l1 == add(lines[p], indent[p], PySlice(s[p], b[p], e - 3))
           l2 == add(l1, indent[p] + 1, FOR_LINE)
           l3 == add(l2, indent[p] + 1, S_LINE)
           l4 == add(l3, indent[p] + 1, F_LINE)
           l5 == add(l4, indent[p] + 1, I_LINE)
       IN  /\ PySlice(s[p], e - 3, e) = EL_OPEN
           /\ lines' = [lines EXCEPT ![p] = l5]
           /\ indent' = [indent EXCEPT ![p] = @ + 1]
           /\ b' = [b EXCEPT ![p] = e]
           /\ i' = [i EXCEPT ![p] = e]
    /\ UNCHANGED <<s, pc, raised, DELIM>>

\* LoopOpen with the span before EL added as a block-open line.
LoopOpenMarked(p) ==
    /\ pc[p] = "loop"
    /\ i[p] < Len(s[p])
    /\ PAT(s[p], i[p]) # NoMatch
    /\ LET e  == PAT(s[p], i[p])
           l1 == add(lines[p], indent[p],
                     PySlice(s[p], b[p], e - 3) \o <<":">>)
           l2 == add(l1, indent[p], FOR_LINE)
           l3 == add(l2, indent[p] + 1, S_LINE)
           l4 == add(l3, indent[p] + 1, F_LINE)
           l5 == add(l4, indent[p] + 1, I_LINE)
       IN  /\ PySlice(s[p], e - 3, e) = EL_OPEN
           /\ lines' = [lines EXCEPT ![p] = l5]
           /\ indent' = [indent EXCEPT ![p] = @ + 1]
           /\ b' = [b EXCEPT ![p] = e]
           /\ i' = [i EXCEPT ![p] = e]
    /\ UNCHANGED <<s, pc, raised, DELIM>>

\* if s[e-3:e] == 'EL{': the macro expansion
LoopOpen(p) ==
    /\ pc[p] = "loop"
    /\ i[p] < Len(s[p])
    /\ PAT(s[p], i[p]) # NoMatch
    /\ LET e  == PAT(s[p], i[p])
           l1 == add(lines[p], indent[p], PySlice(s[p], b[p], e - 3))
           l2 == add(l1, indent[p], FOR_LINE)
           l3 == add(l2, indent[p] + 1, S_LINE)
           l4 == add(l3, indent[p] + 1, F_LINE)
           l5 == add(l4, indent[p] + 1, I_LINE)
       IN  /\ PySlice(s[p], e - 3, e) = EL_OPEN
           /\ lines' = [lines EXCEPT ![p] = l5]
           /\ indent' = [indent EXCEPT ![p] = @ + 1]
           /\ b' = [b EXCEPT ![p] = e]
           /\ i' = [i EXCEPT ![p] = e]
    /\ UNCHANGED <<s, pc, raised, DELIM>>

\* BlockOpen with indent kept in one module global that all passes share.
BlockOpenShared(p) ==
    /\ pc[p] = "loop"
    /\ i[p] < Len(s[p])
    /\ PAT(s[p], i[p]) # NoMatch
    /\ LET e == PAT(s[p], i[p])
       IN  /\ PySlice(s[p], e - 3, e) # EL_OPEN
           /\ PyAt(s[p], e - 1) = "{"
           /\ lines' = [lines EXCEPT ![p] =
                           add(@, indent[p],
                               PySlice(s[p], b[p], e - 1) \o <<":">>)]
           /\ indent' = [q \in Passes |-> indent[p] + 1]
           /\ b' = [b EXCEPT ![p] = e]
           /\ i' = [i EXCEPT ![p] = e]
    /\ UNCHANGED <<s, pc, raised, DELIM>>

\* elif s[e-1] == '{'
BlockOpen(p) ==
    /\ pc[p] = "loop"
    /\ i[p] < Len(s[p])
    /\ PAT(s[p], i[p]) # NoMatch
    /\ LET e == PAT(s[p], i[p])
       IN  /\ PySlice(s[p], e - 3, e) # EL_OPEN
           /\ PyAt(s[p], e - 1) = "{"
           /\ lines' = [lines EXCEPT ![p] =
                           add(@, indent[p],
                               PySlice(s[p], b[p], e - 1) \o <<":">>)]
           /\ indent' = [indent EXCEPT ![p] = @ + 1]
           /\ b' = [b EXCEPT ![p] = e]
           /\ i' = [i EXCEPT ![p] = e]
    /\ UNCHANGED <<s, pc, raised, DELIM>>

\* BlockClose with the indentation lowered before the span is added.
BlockCloseEarly(p) ==
    /\ pc[p] = "loop"
    /\ i[p] < Len(s[p])
    /\ PAT(s[p], i[p]) # NoMatch
    /\ LET e == PAT(s[p], i[p])
       IN  /\ PySlice(s[p], e - 3, e) # EL_OPEN
           /\ PyAt(s[p], e - 1) = "}"
           /\ lines' = [lines EXCEPT ![p] =
                           add(@, indent[p] - 1, PySlice(s[p], b[p], e - 1))]
           /\ indent' = [indent EXCEPT ![p] = @ - 1]
           /\ IF indent[p] - 1 < 0
              THEN /\ raised' = [raised EXCEPT ![p] =
                                    ERR_PREFIX \o PyFrom(s[p], b[p])]
                   /\ pc' = [pc EXCEPT ![p] = "error"]
                   /\ UNCHANGED <<b, i>>
              ELSE /\ b' = [b EXCEPT ![p] = e]
                   /\ i' = [i EXCEPT ![p] = e]
                   /\ UNCHANGED <<pc, raised>>
    /\ UNCHANGED <<s, DELIM>>

\* BlockClose without the test "if indent < 0".
BlockCloseUnchecked(p) ==
    /\ pc[p] = "loop"
    /\ i[p] < Len(s[p])
    /\ PAT(s[p], i[p]) # NoMatch
    /\ LET e == PAT(s[p], i[p])
       IN  /\ PySlice(s[p], e - 3, e) # EL_OPEN
           /\ PyAt(s[p], e - 1) = "}"
           /\ lines' = [lines EXCEPT ![p] =
                           add(@, indent[p], PySlice(s[p], b[p], e - 1))]
           /\ indent' = [indent EXCEPT ![p] = @ - 1]
           /\ b' = [b EXCEPT ![p] = e]
           /\ i' = [i EXCEPT ![p] = e]
    /\ UNCHANGED <<s, pc, raised, DELIM>>

\* elif s[e-1] == '}'
BlockClose(p) ==
    /\ pc[p] = "loop"
    /\ i[p] < Len(s[p])
    /\ PAT(s[p], i[p]) # NoMatch
    /\ LET e == PAT(s[p], i[p])
       IN  /\ PySlice(s[p], e - 3, e) # EL_OPEN
           /\ PyAt(s[p], e - 1) = "}"
           /\ lines' = [lines EXCEPT ![p] =
                           add(@, indent[p], PySlice(s[p], b[p], e - 1))]
           /\ indent' = [indent EXCEPT ![p] = @ - 1]
           /\ IF indent[p] - 1 < 0
              THEN \* raise SyntaxError('Invalid Syntax: '+s[b:])
                   /\ raised' = [raised EXCEPT ![p] =
                                    ERR_PREFIX \o PyFrom(s[p], b[p])]
                   /\ pc' = [pc EXCEPT ![p] = "error"]
                   /\ UNCHANGED <<b, i>>
              ELSE /\ b' = [b EXCEPT ![p] = e]
                   /\ i' = [i EXCEPT ![p] = e]
                   /\ UNCHANGED <<pc, raised>>
    /\ UNCHANGED <<s, DELIM>>

\* elif s[e-1] == ';'
Semicolon(p) ==
    /\ pc[p] = "loop"
    /\ i[p] < Len(s[p])
    /\ PAT(s[p], i[p]) # NoMatch
    /\ LET e == PAT(s[p], i[p])
       IN  /\ PySlice(s[p], e - 3, e) # EL_OPEN
           /\ PyAt(s[p], e - 1) = ";"
           /\ lines' = [lines EXCEPT ![p] =
                           add(@, indent[p], PySlice(s[p], b[p], e - 1))]
           /\ b' = [b EXCEPT ![p] = e]
           /\ i' = [i EXCEPT ![p] = e]
    /\ UNCHANGED <<s, indent, pc, raised, DELIM>>

\* Quoted without the assignment "i = e".
QuotedStuck(p) ==
    /\ pc[p] = "loop"
    /\ i[p] < Len(s[p])
    /\ PAT(s[p], i[p]) # NoMatch
    /\ LET e == PAT(s[p], i[p])
       IN  /\ PySlice(s[p], e - 3, e) # EL_OPEN
           /\ PyAt(s[p], e - 1) \notin {"{", "}", ";"}
    /\ UNCHANGED <<s, i, b, indent, lines, pc, raised, DELIM>>

\* else: i = e; continue   (the match ended with a quoted literal)
Quoted(p) ==
    /\ pc[p] = "loop"
    /\ i[p] < Len(s[p])
    /\ PAT(s[p], i[p]) # NoMatch
    /\ LET e == PAT(s[p], i[p])
       IN  /\ PySlice(s[p], e - 3, e) # EL_OPEN
           /\ PyAt(s[p], e - 1) \notin {"{", "}", ";"}
           /\ i' = [i EXCEPT ![p] = e]
    /\ UNCHANGED <<s, b, indent, lines, pc, raised, DELIM>>

Next ==
    \/ \E p \in Passes : Return(p)
    \/ \E p \in Passes : Unmatched(p)
    \/ \E p \in Passes : LoopOpen(p)
    \/ \E p \in Passes : BlockOpen(p)
    \/ \E p \in Passes : BlockClose(p)
    \/ \E p \in Passes : Semicolon(p)
    \/ \E p \in Passes : Quoted(p)

Spec == Init /\ [][Next]_vars

SpecConc == InitConc /\ [][Next]_vars

\* make_script runs without suspension: a pass that can take a step takes it.
SpecFair == InitFair /\ [][Next]_vars /\ WF_vars(Next)

(***************************************************************************)
(* make_script as a function of its argument alone: the loop from scan     *)
(* position k, span start a, indentation ind and lines ls, up to the       *)
(* return or the raise.                                                    *)
(***************************************************************************)
RECURSIVE make_script_from(_, _, _, _, _)
make_script_from(t, k, a, ind, ls) ==
    IF ~(k < Len(t))
    THEN [pc |-> "done", lines |-> ls, raised |-> << >>]
    ELSE LET e == PAT(t, k)
         IN  IF e = NoMatch
             THEN [pc |-> "done", lines |-> add(ls, ind, PyFrom(t, a)),
                   raised |-> << >>]
             ELSE IF PySlice(t, e - 3, e) = EL_OPEN
             THEN LET l1 == add(ls, ind, PySlice(t, a, e - 3))
                      l2 == add(l1, ind, FOR_LINE)
                      l3 == add(l2, ind + 1, S_LINE)
                      l4 == add(l3, ind + 1, F_LINE)
                      l5 == add(l4, ind + 1, I_LINE)
                  IN  make_script_from(t, e, e, ind + 1, l5)
             ELSE IF PyAt(t, e - 1) = "{"
             THEN make_script_from(t, e, e, ind + 1,
                      add(ls, ind, PySlice(t, a, e - 1) \o <<":">>))
             ELSE IF PyAt(t, e - 1) = "}"
             THEN IF ind - 1 < 0
                  THEN [pc |-> "error",
                        lines |-> add(ls, ind, PySlice(t, a, e - 1)),
                        raised |-> ERR_PREFIX \o PyFrom(t, a)]
                  ELSE make_script_from(t, e, e, ind - 1,
                           add(ls, ind, PySlice(t, a, e - 1)))
             ELSE IF PyAt(t, e - 1) = ";"
             THEN make_script_from(t, e, e, ind,
                      add(ls, ind, PySlice(t, a, e - 1)))
             ELSE make_script_from(t, e, a, ind, ls)

\* make_script(t) run on its own: how it ends, and with what.
make_script(t) == make_script_from(t, 0, 0, 0, << >>)

(***************************************************************************)
(* Reference reading of a text, independent of PAT: a quote outside a      *)
(* literal opens one, a backslash inside a literal escapes the character   *)
(* after it, the same unescaped quote closes it, and a literal that is     *)
(* never closed runs to the end of the text.                               *)
(***************************************************************************)
\* Offset of the quote closing a literal of kind q whose body starts at k,
\* or -1.
RECURSIVE RefClose(_, _, _)
RefClose(t, k, q) ==
    IF k >= Len(t) THEN -1
    ELSE IF PyAt(t, k) = BS THEN RefClose(t, k + 2, q)
    ELSE IF PyAt(t, k) = q THEN k
    ELSE RefClose(t, k + 1, q)

\* The offsets from k on that are outside every literal (k is outside).
RECURSIVE RefOutside(_, _)
RefOutside(t, k) ==
    IF k >= Len(t) THEN {}
    ELSE IF PyAt(t, k) \in {DQ, SQ}
         THEN LET c == RefClose(t, k + 1, PyAt(t, k))
              IN  IF c = -1 THEN {} ELSE RefOutside(t, c + 1)
         ELSE {k} \cup RefOutside(t, k + 1)

\* The <<open, close>> offsets of the terminated literals from k on.
RECURSIVE RefLiterals(_, _)
RefLiterals(t, k) ==
    IF k >= Len(t) THEN {}
    ELSE IF PyAt(t, k) \in {DQ, SQ}
         THEN LET c == RefClose(t, k + 1, PyAt(t, k))
              IN  IF c = -1 THEN {}
                  ELSE {<<k, c>>} \cup RefLiterals(t, c + 1)
         ELSE RefLiterals(t, k + 1)

\* Offset k lies strictly inside a terminated literal of t.
InsideLiteral(t, k) ==
    \E l \in RefLiterals(t, 0) : l[1] < k /\ k < l[2]

\* The offsets of the structural delimiters of t.
RefStructural(t) ==
    {k \in RefOutside(t, 0) : PyAt(t, k) \in {";", "{", "}"}}

\* The structural "{" at offset k is a macro trigger.
RefTrigger(t, k) ==
    /\ PyAt(t, k) = "{"
    /\ k >= 2
    /\ PyAt(t, k - 2) = "E"
    /\ PyAt(t, k - 1) = "L"

\* The trimmed non-blank segments of t[k:] between structural delimiters.
RECURSIVE RefSegments(_, _)
RefSegments(t, k) ==
    LET D   == {d \in RefStructural(t) : d >= k}
        d0  == CHOOSE d \in D : \A x \in D : d <= x
        seg == Strip(PySlice(t, k, IF D = {} THEN Len(t) ELSE d0))
        one == IF seg = << >> THEN << >> ELSE <<seg>>
    IN  IF D = {} THEN one ELSE one \o RefSegments(t, d0 + 1)

\* Number of structural "{" minus number of structural "}" before offset k.
RefDepth(t, k) ==
    Cardinality({d \in RefStructural(t) : d < k /\ PyAt(t, d) = "{"})
    - Cardinality({d \in RefStructural(t) : d < k /\ PyAt(t, d) = "}"})

\* Some prefix of the structural delimiters has more "}" than "{".
RefUnbalanced(t) ==
    \E k \in RefStructural(t) : RefDepth(t, k + 1) < 0

\* The content of an output line: indentation removed.
Content(line) == LStrip(line)

\* The depth of an output line: its indentation in units.
RECURSIVE LeadingBlanks(_)
LeadingBlanks(line) ==
    IF line # << >> /\ Head(line) = " "
    THEN 1 + LeadingBlanks(Tail(line))
    ELSE 0

DepthOf(line) == LeadingBlanks(line) \div Len(INDENT_UNIT)

\* Exactly the line "text" at depth d.
IsLine(line, d, text) == line = Repeat(INDENT_UNIT, d) \o text

(***************************************************************************)
(* C1  Quote safety.  A step that emits a line or changes the depth at a   *)
(* delimiter never does so at a ";", "{" or "}" lying inside a terminated  *)
(* quoted literal, and print("a;b{c}d") returns one line equal to the      *)
(* input at depth 0.                                                       *)
(***************************************************************************)
C1_Delimiter(p) ==
    (/\ PAT(s[p], i[p]) # NoMatch
     /\ \/ lines'[p] # lines[p]
        \/ indent'[p] # indent[p]
        \/ b'[p] # b[p])
    => ~InsideLiteral(s[p], PAT(s[p], i[p]) - 1)

C1_Example ==
    \A p \in Passes :
        s[p] = ExQuote =>
            /\ indent[p] = 0
            /\ pc[p] # "error"
            /\ pc[p] = "done" => lines[p] = <<ExQuote>>

QuoteSafety ==
    /\ [][\A p \in Passes : C1_Delimiter(p)]_vars
    /\ []C1_Example

\* A pass has stepped over a terminated literal holding a delimiter and
\* returned the whole input as one line.
QuoteSafetyWitness ==
    \E p \in Passes :
        /\ pc[p] = "done"
        /\ s[p] = ExQuote
        /\ InsideLiteral(s[p], 8)
        /\ lines[p] = <<ExQuote>>

(***************************************************************************)
(* C2  Tail emission.  When a pass returns, the text after the last        *)
(* structural delimiter, trimmed, is the last line at the current depth    *)
(* unless it is blank.                                                     *)
(***************************************************************************)
TailEmission ==
    \A p \in Passes :
        pc[p] = "done" =>
            LET tail == Strip(PyFrom(s[p], b[p]))
            IN  tail # << >> =>
                    /\ lines[p] # << >>
                    /\ IsLine(lines[p][Len(lines[p])], indent[p], tail)

(***************************************************************************)
(* C3  Idempotence of structure.  For an input without a macro trigger     *)
(* that returns, the statements of the output lines (indentation and       *)
(* block-open marker removed, blank remainders dropped) are, in order,     *)
(* the non-blank trimmed segments between the structural delimiters.       *)
(***************************************************************************)
StripMarker(text) ==
    IF text # << >> /\ text[Len(text)] = ":"
    THEN Strip(SubSeq(text, 1, Len(text) - 1))
    ELSE text

RECURSIVE Statements(_)
Statements(ls) ==
    IF ls = << >> THEN << >>
    ELSE LET st == StripMarker(Content(Head(ls)))
         IN  (IF st = << >> THEN << >> ELSE <<st>>) \o Statements(Tail(ls))

StructureRecovered ==
    \A p \in Passes :
        (/\ pc[p] = "done"
         /\ \A k \in RefStructural(s[p]) : ~RefTrigger(s[p], k))
        => Statements(lines[p]) = RefSegments(s[p], 0)

(***************************************************************************)
(* C4  Unbalanced close is the only failure.  A pass ends with the         *)
(* SyntaxError exactly when some prefix of the structural delimiters has   *)
(* more "}" than "{"; it is raised at the first such "}".                  *)
(***************************************************************************)
OnlyUnbalancedCloseFails ==
    \A p \in Passes :
        /\ pc[p] \in {"done", "error"} =>
               (pc[p] = "error" <=> RefUnbalanced(s[p]))
        /\ pc[p] = "error" =>
               \E k \in RefStructural(s[p]) :
                   /\ RefDepth(s[p], k + 1) < 0
                   /\ \A d \in RefStructural(s[p]) :
                          d < k => RefDepth(s[p], d + 1) >= 0
                   /\ b[p] <= k
                   /\ raised[p] = ERR_PREFIX \o PyFrom(s[p], b[p])

(***************************************************************************)
(* The step of pass p, read off the state it is taken in.                  *)
(***************************************************************************)
\* Pass p takes a step.
Steps(p) == <<i[p], b[p], pc[p]>> # <<i'[p], b'[p], pc'[p]>>

\* The scan of pass p stops at a delimiter: its offset, else -1.
StopsAt(p) ==
    IF pc[p] = "loop" /\ i[p] < Len(s[p]) /\ PAT(s[p], i[p]) # NoMatch
    THEN PAT(s[p], i[p]) - 1
    ELSE -1

\* The step of pass p is taken at a structural delimiter c.
AtDelimiter(p, c) ==
    /\ Steps(p)
    /\ StopsAt(p) # -1
    /\ PyAt(s[p], StopsAt(p)) = c

\* ... at a "{" that the letters EL precede.
AtTrigger(p) ==
    /\ AtDelimiter(p, "{")
    /\ StopsAt(p) >= 2
    /\ PyAt(s[p], StopsAt(p) - 2) = "E"
    /\ PyAt(s[p], StopsAt(p) - 1) = "L"

\* ... at the end of the text, no delimiter left.
AtTail(p) ==
    /\ Steps(p)
    /\ pc[p] = "loop"
    /\ i[p] < Len(s[p])
    /\ PAT(s[p], i[p]) = NoMatch

\* The span before the delimiter the scan stops at, trimmed.
SpanBefore(p) == Strip(PySlice(s[p], b[p], StopsAt(p)))

\* The span before the letters EL of a trigger, trimmed.
SpanBeforeEL(p) == Strip(PySlice(s[p], b[p], StopsAt(p) - 2))

\* The line for text at depth d, none if text is empty.
LineIf(d, text) ==
    IF text = << >> THEN << >> ELSE <<Repeat(INDENT_UNIT, d) \o text>>

(***************************************************************************)
(* C5  Block-open line.  At every plain "{" a pass appends exactly one     *)
(* line: the indentation, the trimmed span before the "{" and the marker   *)
(* ":" directly after it; then the depth grows by one.  "A { B; C }"       *)
(* gives "A:", "    B", "    C".                                           *)
(***************************************************************************)
C5_Step(p) ==
    (AtDelimiter(p, "{") /\ ~AtTrigger(p)) =>
        /\ lines'[p] =
               Append(lines[p],
                      Repeat(INDENT_UNIT, indent[p]) \o SpanBefore(p)
                          \o MARKER)
        /\ indent'[p] = indent[p] + 1

C5_Example ==
    \A p \in Passes :
        (s[p] = ExBlock /\ pc[p] = "done") =>
            lines[p] = <<TextA \o MARKER,
                         INDENT_UNIT \o TextB,
                         INDENT_UNIT \o TextC>>

BlockOpenLine ==
    /\ [][\A p \in Passes : C5_Step(p)]_vars
    /\ []C5_Example

(***************************************************************************)
(* C6  Empty-statement suppression.  No returned line has blank content.   *)
(* As stated: a span that is blank after trimming produces no line,        *)
(* whatever ends it.  As amended: it produces no line at ";", "}" and the  *)
(* end of the text, only the marker line ":" at a plain "{", and only the  *)
(* four synthesized lines at a macro trigger.  "A;;B" gives "A", "B".      *)
(***************************************************************************)
NoBlankLine ==
    \A p \in Passes :
        \A k \in 1..Len(lines[p]) : Strip(lines[p][k]) # << >>

C6_Example ==
    \A p \in Passes :
        (s[p] = ExEmpty /\ pc[p] = "done") => lines[p] = <<TextA, TextB>>

\* The lines a macro trigger synthesizes at depth d.
Synthesized(d) ==
    <<Repeat(INDENT_UNIT, d) \o FOR_LINE,
      Repeat(INDENT_UNIT, d + 1) \o S_LINE,
      Repeat(INDENT_UNIT, d + 1) \o F_LINE,
      Repeat(INDENT_UNIT, d + 1) \o I_LINE>>

C6_BlankAtEnd(p) ==
    /\ (AtDelimiter(p, ";") /\ SpanBefore(p) = << >>) =>
           lines'[p] = lines[p]
    /\ (AtDelimiter(p, "}") /\ SpanBefore(p) = << >>) =>
           lines'[p] = lines[p]
    /\ (AtTail(p) /\ Strip(PyFrom(s[p], b[p])) = << >>) =>
           lines'[p] = lines[p]
    /\ (AtTrigger(p) /\ SpanBeforeEL(p) = << >>) =>
           lines'[p] = lines[p] \o Synthesized(indent[p])

C6_BlankAtOpenStated(p) ==
    (AtDelimiter(p, "{") /\ ~AtTrigger(p) /\ SpanBefore(p) = << >>) =>
        lines'[p] = lines[p]

C6_BlankAtOpen(p) ==
    (AtDelimiter(p, "{") /\ ~AtTrigger(p) /\ SpanBefore(p) = << >>) =>
        lines'[p] = Append(lines[p], Repeat(INDENT_UNIT, indent[p]) \o MARKER)

EmptySuppressedStated ==
    /\ []NoBlankLine
    /\ []C6_Example
    /\ [][\A p \in Passes : C6_BlankAtEnd(p) /\ C6_BlankAtOpenStated(p)]_vars

EmptySuppressed ==
    /\ []NoBlankLine
    /\ []C6_Example
    /\ [][\A p \in Passes : C6_BlankAtEnd(p) /\ C6_BlankAtOpen(p)]_vars

\* "A;;B" has returned: the blank span between the two ";" left no line.
EmptySuppressedWitness ==
    \E p \in Passes :
        /\ s[p] = ExEmpty
        /\ pc[p] = "done"
        /\ Len(lines[p]) = 2

(***************************************************************************)
(* C7  Loop macro example, "P{EL{Q}}".  As stated: "P:" at depth 0, the    *)
(* header at depth 1, four synthesized derivation lines at depth 2, "Q"    *)
(* at depth 2.  As amended: three derivation lines.  The depth is 1 after  *)
(* the macro's close and 0 after the close of P.                           *)
(***************************************************************************)
Derivations == {S_LINE, F_LINE, I_LINE}

LoopExampleStated ==
    \A p \in Passes :
        (s[p] = ExLoop /\ pc[p] = "done") =>
            /\ Len(lines[p]) = 7
            /\ IsLine(lines[p][1], 0, TextP \o MARKER)
            /\ IsLine(lines[p][2], 1, FOR_LINE)
            /\ \A k \in 3..6 :
                   /\ DepthOf(lines[p][k]) = 2
                   /\ Content(lines[p][k]) \in Derivations
            /\ IsLine(lines[p][7], 2, TextQ)
            /\ indent[p] = 0

LoopExampleLines ==
    <<TextP \o MARKER>> \o Synthesized(1)
        \o <<Repeat(INDENT_UNIT, 2) \o TextQ>>

\* Start of span |-> <<depth, number of lines emitted>> along the pass.
LoopExampleTrace ==
    (0 :> <<0, 0>>) @@ (2 :> <<1, 1>>) @@ (5 :> <<2, 5>>)
        @@ (7 :> <<1, 6>>) @@ (8 :> <<0, 6>>)

LoopExample ==
    \A p \in Passes :
        s[p] = ExLoop =>
            /\ pc[p] # "error"
            /\ b[p] \in DOMAIN LoopExampleTrace
            /\ indent[p] = LoopExampleTrace[b[p]][1]
            /\ lines[p] = SubSeq(LoopExampleLines, 1, LoopExampleTrace[b[p]][2])
            /\ pc[p] = "done" => b[p] = 8

LoopExampleWitness ==
    \E p \in Passes :
        /\ s[p] = ExLoop
        /\ pc[p] = "done"
        /\ lines[p] = LoopExampleLines
        /\ indent[p] = 0

(***************************************************************************)
(* C8  Nested blocks example, "A{B{C}D}".  As stated: five lines at depths *)
(* 0,1,2,1,0.  As amended: the four lines "A:", "B:", "C", "D" at depths   *)
(* 0,1,2,1; the depth counter goes 0,1,2,1,0 and ends at 0.                *)
(***************************************************************************)
NestedExampleStated ==
    \A p \in Passes :
        (s[p] = ExNested /\ pc[p] = "done") =>
            /\ Len(lines[p]) = 5
            /\ \A k \in 1..5 : DepthOf(lines[p][k]) = <<0, 1, 2, 1, 0>>[k]
            /\ indent[p] = 0

NestedExampleLines ==
    <<TextA \o MARKER,
      INDENT_UNIT \o TextB \o MARKER,
      INDENT_UNIT \o INDENT_UNIT \o TextC,
      INDENT_UNIT \o TextD>>

\* Start of span |-> <<depth, number of lines emitted>> along the pass.
NestedExampleTrace ==
    (0 :> <<0, 0>>) @@ (2 :> <<1, 1>>) @@ (4 :> <<2, 2>>)
        @@ (6 :> <<1, 3>>) @@ (8 :> <<0, 4>>)

NestedExample ==
    \A p \in Passes :
        s[p] = ExNested =>
            /\ pc[p] # "error"
            /\ b[p] \in DOMAIN NestedExampleTrace
            /\ indent[p] = NestedExampleTrace[b[p]][1]
            /\ lines[p] =
                   SubSeq(NestedExampleLines, 1, NestedExampleTrace[b[p]][2])
            /\ pc[p] = "done" => b[p] = 8

NestedExampleWitness ==
    \E p \in Passes :
        /\ s[p] = ExNested
        /\ pc[p] = "done"
        /\ lines[p] = NestedExampleLines
        /\ \A k \in 1..4 : DepthOf(lines[p][k]) = <<0, 1, 2, 1>>[k]
        /\ indent[p] = 0

(***************************************************************************)
(* C9  Concurrent invocations are independent.  However the steps of the   *)
(* passes are interleaved, a pass that has ended has returned the lines,   *)
(* or raised the error, of make_script run alone on its input; a step of   *)
(* one pass leaves the position, depth and lines of every other pass       *)
(* alone, and no step writes DELIM.                                        *)
(***************************************************************************)
PassState(p) == <<s[p], i[p], b[p], indent[p], lines[p], pc[p], raised[p]>>

C9_Result ==
    \A p \in Passes :
        pc[p] \in {"done", "error"} =>
            LET alone == make_script(s[p])
            IN  /\ pc[p] = alone.pc
                /\ raised[p] = alone.raised
                /\ pc[p] = "done" => lines[p] = alone.lines

C9_Frame ==
    /\ DELIM' = DELIM
    /\ \A p, q \in Passes :
           (p # q /\ Steps(p)) => PassState(q)' = PassState(q)

Independent ==
    /\ []C9_Result
    /\ [][C9_Frame]_vars

\* One pass has returned the macro example while another, on a different
\* input, is in the middle of its scan.
IndependentWitness ==
    \E p, q \in Passes :
        /\ p # q
        /\ s[p] = ExLoop
        /\ pc[p] = "done"
        /\ lines[p] = LoopExampleLines
        /\ s[q] = ExNested
        /\ pc[q] = "loop"
        /\ b[q] = 4

(***************************************************************************)
(* C10  Loop-macro expansion order.  At a "{" that ends in "EL{", at depth *)
(* d, a pass appends, in this order: the trimmed span before "EL" at depth *)
(* d without marker (nothing if blank), the header at depth d, and the     *)
(* three lines for s, F and I at depth d+1; the depth becomes d+1.  A "}"  *)
(* that does not fail appends the span before it at the depth in force     *)
(* and lowers the depth by one, whatever opened the block.                 *)
(***************************************************************************)
C10_Open(p) ==
    AtTrigger(p) =>
        /\ lines'[p] =
               lines[p]
                   \o LineIf(indent[p], SpanBeforeEL(p))
                   \o <<Repeat(INDENT_UNIT, indent[p]) \o FOR_LINE>>
                   \o <<Repeat(INDENT_UNIT, indent[p] + 1) \o S_LINE,
                        Repeat(INDENT_UNIT, indent[p] + 1) \o F_LINE,
                        Repeat(INDENT_UNIT, indent[p] + 1) \o I_LINE>>
        /\ indent'[p] = indent[p] + 1
        /\ pc'[p] = "loop"

C10_Close(p) ==
    (AtDelimiter(p, "}") /\ indent[p] > 0) =>
        /\ lines'[p] = lines[p] \o LineIf(indent[p], SpanBefore(p))
        /\ indent'[p] = indent[p] - 1
        /\ pc'[p] = "loop"

MacroOrder == [][\A p \in Passes : C10_Open(p) /\ C10_Close(p)]_vars

\* A macro with a non-blank span before it has been expanded at depth 0:
\* the span line, the header, then the three body lines one level deeper.
MacroOrderWitness ==
    \E p \in Passes :
        /\ s[p] = <<"A", "E", "L", "{">>
        /\ indent[p] = 1
        /\ Len(lines[p]) = 5
        /\ IsLine(lines[p][1], 0, TextA)
        /\ IsLine(lines[p][2], 0, FOR_LINE)
        /\ IsLine(lines[p][5], 1, I_LINE)

\* Offset of the quote that opens the literal of t[k:] that is never
\* closed (k is outside every literal), or -1.
RECURSIVE RefUnterminatedAt(_, _)
RefUnterminatedAt(t, k) ==
    IF k >= Len(t) THEN -1
    ELSE IF PyAt(t, k) \in {DQ, SQ}
         THEN LET c == RefClose(t, k + 1, PyAt(t, k))
              IN  IF c = -1 THEN k ELSE RefUnterminatedAt(t, c + 1)
         ELSE RefUnterminatedAt(t, k + 1)

(***************************************************************************)
(* C11  Escaped quotes do not end a literal.  A quote that a backslash     *)
(* escapes never closes a literal: every quote at which a match ends is    *)
(* the unescaped closing quote of a literal, every delimiter a pass acts   *)
(* on lies outside the literals so read, and "a\";b returns one line.      *)
(***************************************************************************)
C11_Step(p) ==
    (Steps(p) /\ StopsAt(p) # -1) =>
        IF PyAt(s[p], StopsAt(p)) \in {DQ, SQ}
        THEN \E l \in RefLiterals(s[p], 0) : l[2] = StopsAt(p)
        ELSE StopsAt(p) \in RefStructural(s[p])

C11_Example ==
    \A p \in Passes :
        (s[p] = ExEscaped /\ pc[p] = "done") => lines[p] = <<ExEscaped>>

EscapedQuotes ==
    /\ [][\A p \in Passes : C11_Step(p)]_vars
    /\ []C11_Example

(***************************************************************************)
(* C12  Unterminated literal.  When a quote outside every literal opens a  *)
(* literal that is never closed, the scan never passes that quote, no      *)
(* span starts after it, and the pass, unless it failed before the quote,  *)
(* returns with the text from the start of the current span to the end of  *)
(* the input, trimmed, as its last line at the current depth.              *)
(***************************************************************************)
UnterminatedFallsThrough ==
    \A p \in Passes :
        LET u == RefUnterminatedAt(s[p], 0)
        IN  u # -1 =>
                /\ i[p] <= u
                /\ b[p] <= u
                /\ pc[p] = "error" => RefUnbalanced(s[p])
                /\ pc[p] = "done" =>
                       /\ lines[p] # << >>
                       /\ IsLine(lines[p][Len(lines[p])], indent[p],
                                 Strip(PyFrom(s[p], b[p])))

(***************************************************************************)
(* C13  Indentation tracks nesting.  Every line a pass appends is four     *)
(* blanks repeated d times followed by content without leading or          *)
(* trailing whitespace, where d is the number of structural "{" minus the  *)
(* number of structural "}" before the delimiter that ends the line's      *)
(* span (before the end of the text for the tail); the three body lines    *)
(* of a macro are at d + 1.  The span before a "}" is therefore at the     *)
(* depth in force before the decrement.                                    *)
(***************************************************************************)
\* line is d indentation units followed by trimmed, non-blank content.
ShapedAt(line, d) ==
    LET w == d * Len(INDENT_UNIT)
    IN  /\ d >= 0
        /\ Len(line) > w
        /\ SubSeq(line, 1, w) = Repeat(INDENT_UNIT, d)
        /\ Strip(SubSeq(line, w + 1, Len(line))) =
               SubSeq(line, w + 1, Len(line))

\* The lines the step of pass p appends.
NewLines(p) == SubSeq(lines'[p], Len(lines[p]) + 1, Len(lines'[p]))

C13_Step(p) ==
    (Steps(p) /\ lines'[p] # lines[p]) =>
        LET k   == IF StopsAt(p) = -1 THEN Len(s[p]) ELSE StopsAt(p)
            d   == RefDepth(s[p], k)
            new == NewLines(p)
        IN  /\ lines'[p] = lines[p] \o new
            /\ \A m \in 1..Len(new) :
                   ShapedAt(new[m],
                            IF AtTrigger(p) /\ m > Len(new) - 3
                            THEN d + 1 ELSE d)

IndentTracksNesting == [][\A p \in Passes : C13_Step(p)]_vars

(***************************************************************************)
(* C14  Depth is never negative.  While a pass continues, and when it has  *)
(* returned, its depth is at least 0; the depth -1 exists only in a pass   *)
(* that has raised the error, and every line was appended at a depth of    *)
(* at least 0.                                                             *)
(***************************************************************************)
C14_Depth ==
    \A p \in Passes :
        /\ pc[p] \in {"loop", "done"} => indent[p] >= 0
        /\ pc[p] = "error" => indent[p] = -1

C14_Step(p) ==
    Steps(p) =>
        /\ indent[p] >= 0
        /\ indent'[p] < 0 => pc'[p] = "error"
        /\ pc'[p] = "error" => lines'[p] = lines[p] \o LineIf(0, SpanBefore(p))

DepthNeverNegative ==
    /\ []C14_Depth
    /\ [][\A p \in Passes : C14_Step(p)]_vars

\* A pass has closed a block back to depth 0 and gone on, and then raised
\* the error at the next "}".
DepthNeverNegativeWitness ==
    \E p \in Passes :
        /\ s[p] = <<"{", "}", "A", "}">>
        /\ pc[p] = "error"
        /\ indent[p] = -1
        /\ b[p] = 2
        /\ lines[p] = <<MARKER, TextA>>

(***************************************************************************)
(* C15  Termination and progress.  Every pass ends, returning or raising;  *)
(* each step of a pass either ends it or moves the scan position forward   *)
(* by at least one character; the scan position and the start of the span  *)
(* never move back, and 0 <= b <= i <= len(s) throughout.                  *)
(***************************************************************************)
C15_Ended == \A p \in Passes : pc[p] \in {"done", "error"}

C15_Range ==
    \A p \in Passes :
        /\ 0 <= b[p]
        /\ b[p] <= i[p]
        /\ i[p] <= Len(s[p])

C15_Step(p) ==
    /\ i'[p] >= i[p]
    /\ b'[p] >= b[p]
    /\ Steps(p) =>
           \/ pc'[p] \in {"done", "error"}
           \/ i'[p] >= i[p] + 1

TerminatesWithProgress ==
    /\ <>C15_Ended
    /\ []C15_Range
    /\ [][\A p \in Passes : C15_Step(p)]_vars

\* A pass has gone through a delimiter step and a literal step, each moving
\* the scan forward, and has returned at the end of the text.
TerminatesWithProgressWitness ==
    \E p \in Passes :
        /\ s[p] = ExTailQuote2
        /\ pc[p] = "done"
        /\ b[p] = 2
        /\ i[p] = Len(s[p])

(***************************************************************************)
(* C16  Macro trigger condition.  A step of a pass expands the loop macro  *)
(* exactly when it is taken at a structural "{" that the two characters    *)
(* "EL" immediately precede, whatever precedes them.  "LABEL{" gives       *)
(* "LAB" and the expansion; "el{", "EL {", an "EL{" inside a quoted        *)
(* literal and "EL" ending a quoted literal ("EL"{) give no expansion.     *)
(***************************************************************************)
\* The step of pass p appends the expansion of the macro.
Fires(p) ==
    LET new == NewLines(p)
    IN  /\ Len(new) >= 4
        /\ SubSeq(new, Len(new) - 3, Len(new)) = Synthesized(indent[p])

\* Some line of ls is the header of the macro.
Expanded(ls) == \E k \in 1..Len(ls) : Content(ls[k]) = FOR_LINE

C16_Step(p) ==
    Steps(p) =>
        (Fires(p) <=>
            /\ StopsAt(p) # -1
            /\ StopsAt(p) \in RefStructural(s[p])
            /\ RefTrigger(s[p], StopsAt(p)))

C16_Examples ==
    \A p \in Passes :
        /\ (s[p] = ExLabel /\ pc[p] = "done") =>
               lines[p] = <<TextLAB>> \o Synthesized(0)
        /\ s[p] \in {ExLower, ExSpaced, ExQuotedEL, ExInnerEL} =>
               ~Expanded(lines[p])

TriggerCondition ==
    /\ [][\A p \in Passes : C16_Step(p)]_vars
    /\ []C16_Examples

====
